---- MODULE Spec2Model ----
(***************************************************************************)
(* Web3 Secret Storage keystore codec (packages/json-wallets keystore.ts): *)
(* encrypt(account, password, options) and decrypt(json, password).        *)
(*                                                                         *)
(* Byte strings are abstracted to one block each, a value of Z_BlockMod.   *)
(* AES-CTR adds the key's permutation of the counter block to the data,    *)
(* so it is length preserving, self-inverse per (key, iv) and injective in *)
(* the iv, as the real cipher is on its first block.  Keccak-256 and the   *)
(* two KDFs are collision-free: their results are the records of their     *)
(* arguments.  Optional values are sequences of length 0 or 1.             *)
(***************************************************************************)
EXTENDS Integers, Sequences, FiniteSets, TLC

VARIABLES enc, dec, doc, origin, prev, scryptCalls, pbkdf2Calls, randomDraws, live

vars == <<enc, dec, doc, origin, prev, scryptCalls, pbkdf2Calls, randomDraws, live>>

----------------------------------------------------------------------------
\* Bounds of the model.
NumKeys == 2
NumRand == 2
NumTimes == 2

BlockMod == NumKeys + NumRand
Blocks == 0..(BlockMod - 1)
Keys == 0..(NumKeys - 1)
RandVals == 0..(NumRand - 1)
Times == 0..(NumTimes - 1)
Passwords == {"foo", "bar"}

Absent == <<>>
Some(x) == <<x>>
Get(o) == o[1]
Has(o) == o # <<>>

----------------------------------------------------------------------------
\* Numbers that reach a bitwise operator are kept exactly, as the set of the
\* positions of their one bits: 1024 is {10}, 2^32 + 1 is {0, 32}.
IntWidth == 32
Bits1000 == {3, 5, 6, 7, 8, 9}
Bits1024 == {10}
BitsDefaultN == {17}
BitsHigh == {0, 32}

Min(S) == CHOOSE m \in S : \A x \in S : m <= x

\* ToInt32 of the operands of &
ToInt32(n) == {i \in n : i < IntWidth}

\* N - 1 for N > 0
MinusOne(n) == (n \ {Min(n)}) \cup {i \in 0..(Min(n) - 1) : TRUE}

\* (N & (N - 1)) !== 0
NAndNMinusOneNonZero(n) == (ToInt32(n) \cap ToInt32(MinusOne(n))) # {}

IsPowerOfTwo(n) == Cardinality(n) = 1

----------------------------------------------------------------------------
\* Strings of hex digits, with or without the 0x prefix.
hexlify(b) == [px |-> TRUE, bytes |-> b]
Substring2(h) == [h EXCEPT !.px = FALSE]
arrayify(h) == h.bytes
looseArrayify(h) == h.bytes

getPassword(password) == [utf8 |-> password]

\* Addresses: the 20-byte value, whether the casing is the EIP-55 one, and
\* whether the string starts with 0x.
AddrHash(pk) == (pk + 1) % BlockMod
computeAddress(pk) == [h |-> AddrHash(pk), cs |-> TRUE, px |-> TRUE]
getAddress(a) == [h |-> a.h, cs |-> TRUE, px |-> TRUE]
AddrToLowerCase(a) == [a EXCEPT !.cs = FALSE]
AddrSubstring2(a) == [a EXCEPT !.px = FALSE]
AddrWith0x(a) == IF a.px THEN a ELSE [a EXCEPT !.px = TRUE]

\* HD wallets: a phrase encodes its entropy; a path walks to a private key.
defaultPath == "m/44'/60'/0'/0/0"
otherPath == "m/44'/60'/0'/0/1"
Paths == {defaultPath, otherPath}
PathOffset(path) == IF path = defaultPath THEN 1 ELSE 2
entropyToMnemonic(e) == [words |-> (e + 1) % BlockMod]
mnemonicToEntropy(m) == (m.words + BlockMod - 1) % BlockMod
derivePrivateKey(e, path) == (e + PathOffset(path)) % BlockMod
\* HDNode.fromMnemonic(mnemonic).derivePath(path)
fromMnemonicDerivePath(m, path) ==
    [privateKey |-> hexlify(derivePrivateKey(mnemonicToEntropy(m), path)),
     mnemonic |-> entropyToMnemonic(mnemonicToEntropy(m)),
     path |-> path]

----------------------------------------------------------------------------
\* Key derivation.  The result is the record of everything it was derived
\* from and of the number of bytes asked for.
KdfKey(kdf, pw, salt, n, r, p, len) ==
    [kdf |-> kdf, pw |-> pw, salt |-> salt, n |-> n, r |-> r, p |-> p, len |-> len]

\* scrypt-js refuses a work factor that is no power of two
scryptAccepts(n) == IsPowerOfTwo(n)
scrypt(pw, salt, n, r, p, dkLen) == KdfKey("scrypt", pw, salt, n, r, p, dkLen)
pbkdf2(pw, salt, c, dkLen, prf) == KdfKey(prf, pw, salt, {}, c, 0, dkLen)

\* key.slice(lo, hi): the bytes that exist in [lo, hi)
\* (both KDFs give the same leading bytes whatever length is asked for)
Slice(key, lo, hi) ==
    [key |-> [key EXCEPT !.len = 0], lo |-> lo, hi |-> IF hi < key.len THEN hi ELSE key.len]
SliceLen(s) == IF s.hi > s.lo THEN s.hi - s.lo ELSE 0

\* aes-js takes keys of 16, 24 or 32 bytes
AesKeyOk(s) == SliceLen(s) \in {16, 24, 32}
PwIndex(pw) == IF pw.utf8 = "foo" THEN 0 ELSE 1
KeyPerm(s) == (PwIndex(s.key.pw) + s.key.salt + (s.lo \div 16)) % BlockMod
KeyStream(s, counter) == (counter + KeyPerm(s) + 1) % BlockMod
AesCtrEncrypt(s, iv, data) == (data + KeyStream(s, iv)) % BlockMod
AesCtrDecrypt(s, iv, data) == (data + BlockMod - KeyStream(s, iv)) % BlockMod

\* keccak256(concat([ macPrefix, ciphertext ]))
keccak256(prefix, ciphertext) == hexlify([prefix |-> prefix, ct |-> ciphertext])

uuidV4(random) == [uuid |-> random]

----------------------------------------------------------------------------
\* The JSON document.  searchPath finds a key whatever its case; a key that
\* is missing reads as Absent.
toLowerCase(str) ==
    CASE str = "Scrypt" -> "scrypt"
      [] str = "PBKDF2" -> "pbkdf2"
      [] OTHER -> str

\* kdfparams hold JSON integers, which parseInt returns as they are; of a
\* missing key it returns NaN, read here as Absent
parseInt(o) == o
\* !N for a bit-set number, !r for a natural number
NotBits(o) == (~Has(o)) \/ Get(o) = {}
NotNat(o) == (~Has(o)) \/ Get(o) = 0

----------------------------------------------------------------------------
\* (variant: the check of a path without mnemonic left out)
PreValidateNoPath(account) ==
    IF getAddress(account.address) # computeAddress(arrayify(account.privateKey))
    THEN "address/privateKey mismatch"
    ELSE IF Has(account.mnemonic)
            /\ fromMnemonicDerivePath(Get(account.mnemonic),
                    IF Has(account.path) THEN Get(account.path) ELSE defaultPath).privateKey
                  # account.privateKey
         THEN "mnemonic mismatch"
         ELSE "ok"

\* encrypt: lines 187-204, the checks made before anything else
PreValidate(account) ==
    IF getAddress(account.address) # computeAddress(arrayify(account.privateKey))
    THEN "address/privateKey mismatch"
    ELSE IF Has(account.mnemonic)
         THEN IF fromMnemonicDerivePath(Get(account.mnemonic),
                     IF Has(account.path) THEN Get(account.path) ELSE defaultPath).privateKey
                 # account.privateKey
              THEN "mnemonic mismatch"
              ELSE "ok"
         ELSE IF Has(account.path)
              THEN "cannot specify path without mnemonic"
              ELSE "ok"

EncIdle ==
    [pc |-> "idle", err |-> "", account |-> Absent, password |-> Absent, options |-> Absent,
     privateKey |-> Absent, passwordBytes |-> Absent, entropy |-> Absent, path |-> Absent,
     client |-> Absent, salt |-> Absent, iv |-> Absent, uuidRandom |-> Absent,
     N |-> Absent, r |-> Absent, p |-> Absent, key |-> Absent, out |-> Absent]

\* lines 252-258
ScryptN(options) ==
    IF Has(options.scrypt) /\ ~NotBits(Get(options.scrypt).N)
    THEN Get(Get(options.scrypt).N) ELSE BitsDefaultN
ScryptR(options) ==
    IF Has(options.scrypt) /\ ~NotNat(Get(options.scrypt).r)
    THEN Get(Get(options.scrypt).r) ELSE 8
ScryptP(options) ==
    IF Has(options.scrypt) /\ ~NotNat(Get(options.scrypt).p)
    THEN Get(Get(options.scrypt).p) ELSE 1

\* (variant: the iv of the options ignored)
EncIvRandom(options, rIv) == rIv

\* lines 234-241: the iv of the options, or 16 random bytes
EncIv(options, rIv) == IF Has(options.iv) THEN Get(options.iv).bytes ELSE rIv

\* (variant: the mnemonic key taken from byte 16)
EncMnemonicKeyFrom16(key) == Slice(key, 16, 48)

\* line 271
EncMnemonicKey(key) == Slice(key, 32, 64)

\* lines 213-263: the locals, the random draws and the call of scrypt
EncryptBegin(account, password, options, rSalt, rIv, rUuid) ==
    /\ enc.pc = "idle"
    /\ LET v == PreValidate(account)
           given == [EncIdle EXCEPT !.account = Some(account), !.password = Some(password),
                                    !.options = Some(options)]
       IN
       IF v # "ok"
       THEN /\ enc' = [given EXCEPT !.pc = "rejected", !.err = v]
            /\ UNCHANGED <<scryptCalls, randomDraws, live>>
       ELSE
         LET hasMnemonic == Has(account.mnemonic)
             l1 == [given EXCEPT
                      !.privateKey = Some(arrayify(account.privateKey)),
                      !.passwordBytes = Some(getPassword(password)),
                      !.entropy = IF hasMnemonic
                                  THEN Some(mnemonicToEntropy(Get(account.mnemonic)))
                                  ELSE Absent,
                      !.path = IF hasMnemonic /\ ~Has(account.path)
                               THEN Some(defaultPath) ELSE account.path,
                      !.client = IF Has(options.client) THEN options.client
                                 ELSE Some("ethers.js"),
                      !.salt = IF Has(options.salt) THEN options.salt ELSE Some(rSalt)]
             d1 == IF Has(options.salt) THEN 0 ELSE 1
             buffers == {"enc.privateKey", "enc.passwordBytes"}
                          \cup (IF hasMnemonic THEN {"enc.entropy"} ELSE {})
         IN
         IF Has(options.iv) /\ Get(options.iv).len # 16
         THEN /\ enc' = [l1 EXCEPT !.pc = "thrown", !.err = "invalid iv"]
              /\ randomDraws' = randomDraws + d1
              /\ live' = live \cup buffers
              /\ UNCHANGED scryptCalls
         ELSE
           LET l2 == [l1 EXCEPT !.iv = Some(EncIv(options, rIv))]
               d2 == d1 + (IF Has(options.iv) THEN 0 ELSE 1)
           IN
           IF Has(options.uuid) /\ Get(options.uuid).len # 16
           THEN /\ enc' = [l2 EXCEPT !.pc = "thrown", !.err = "invalid uuid"]
                /\ randomDraws' = randomDraws + d2
                /\ live' = live \cup buffers
                /\ UNCHANGED scryptCalls
           ELSE
             LET l3 == [l2 EXCEPT
                          !.uuidRandom = IF Has(options.uuid)
                                         THEN Some(Get(options.uuid).bytes) ELSE Some(rUuid),
                          !.N = Some(ScryptN(options)),
                          !.r = Some(ScryptR(options)),
                          !.p = Some(ScryptP(options))]
                 d3 == d2 + (IF Has(options.uuid) THEN 0 ELSE 1)
             IN
             /\ enc' = IF scryptAccepts(ScryptN(options))
                       THEN [l3 EXCEPT !.pc = "kdf"]
                       ELSE [l3 EXCEPT !.pc = "failed", !.err = "scrypt: invalid N"]
             /\ randomDraws' = randomDraws + d3
             /\ scryptCalls' = scryptCalls + 1
             /\ live' = live \cup buffers
    /\ UNCHANGED <<dec, doc, origin, prev, pbkdf2Calls>>

\* lines 264-328: the document built once scrypt has delivered the key
EncryptDocument(e, key, mnemonicIv, now) ==
    LET derivedKey == Slice(key, 0, 16)
        macPrefix == Slice(key, 16, 32)
        mnemonicKey == EncMnemonicKey(key)
        ciphertext == AesCtrEncrypt(derivedKey, Get(e.iv), Get(e.privateKey))
        mac == keccak256(macPrefix, ciphertext)
        address == AddrToLowerCase(AddrSubstring2(Get(e.account).address))
    IN [address |-> Some(address),
        id |-> uuidV4(Get(e.uuidRandom)),
        version |-> 3,
        Crypto |->
          [cipher |-> Some("aes-128-ctr"),
           cipherparams |-> [iv |-> Substring2(hexlify(Get(e.iv)))],
           ciphertext |-> Substring2(hexlify(ciphertext)),
           kdf |-> Some("scrypt"),
           kdfparams |-> [salt |-> Substring2(hexlify(Get(e.salt))),
                          n |-> e.N, dklen |-> Some(32), p |-> e.p, r |-> e.r,
                          c |-> Absent, prf |-> Absent],
           mac |-> Substring2(mac)],
        xethers |->
          IF Has(e.entropy)
          THEN Some([client |-> Get(e.client),
                     gethFilename |-> [timestamp |-> now, address |-> address],
                     mnemonicCounter |-> Substring2(hexlify(mnemonicIv)),
                     mnemonicCiphertext |->
                        Substring2(hexlify(AesCtrEncrypt(mnemonicKey, mnemonicIv, Get(e.entropy)))),
                     path |-> e.path,
                     version |-> "0.1"])
          ELSE Absent]

EncryptResume(mnemonicIv, now) ==
    /\ enc.pc = "kdf"
    /\ LET key == scrypt(Get(enc.passwordBytes), Get(enc.salt), Get(enc.N), Get(enc.r),
                         Get(enc.p), 64)
           out == EncryptDocument(enc, key, mnemonicIv, now)
       IN /\ enc' = [enc EXCEPT !.pc = "done", !.key = Some(key), !.out = Some(out)]
          /\ doc' = Some(out)
          /\ origin' = "encrypt"
          /\ randomDraws' = randomDraws + (IF Has(enc.entropy) THEN 1 ELSE 0)
          /\ live' = live \cup {"enc.key"}
    /\ UNCHANGED <<dec, prev, scryptCalls, pbkdf2Calls>>

----------------------------------------------------------------------------
DecIdle ==
    [pc |-> "idle", err |-> "", data |-> Absent, password |-> Absent, passwordBytes |-> Absent,
     key |-> Absent, privateKey |-> Absent, mnemonicKey |-> Absent, entropy |-> Absent,
     account |-> Absent]

DecFail(d, msg) == [d EXCEPT !.pc = "failed", !.err = msg]

\* (variant: the counter started at zero instead of the document's iv)
DecryptCipherZeroIv(data, key, ciphertext) ==
    IF data.Crypto.cipher = Some("aes-128-ctr")
    THEN Some(AesCtrDecrypt(key, 0, ciphertext))
    ELSE Absent

\* decrypt: lines 54-66, the inner function decrypt(key, ciphertext)
DecryptCipher(data, key, ciphertext) ==
    IF data.Crypto.cipher = Some("aes-128-ctr")
    THEN Some(AesCtrDecrypt(key, looseArrayify(data.Crypto.cipherparams.iv), ciphertext))
    ELSE Absent

\* lines 68-70
computeMAC(derivedHalf, ciphertext) == keccak256(derivedHalf, ciphertext)

\* (variant: the address field never compared)
AddressCheckSkipped(data, address) == FALSE

\* lines 87-95: the address field of the document against the derived address
AddressCheckFails(data, address) ==
    /\ Has(data.address)
    /\ getAddress(AddrWith0x(AddrToLowerCase(Get(data.address)))) # address

\* (variant: the MAC never compared)
MacMatchesAlways(computedMAC, stored) == TRUE

\* line 76: the computed MAC against crypto/mac
MacMatches(computedMAC, stored) == computedMAC = stored

\* (variant: x-ethers/path ignored)
DecPathDefault(x) == defaultPath

\* line 111
DecPath(x) == IF Has(x.path) THEN Get(x.path) ELSE defaultPath

\* lines 72-127: getAccount(key), run on the record d of the call
getAccount(d0, data, key) ==
    LET d == [d0 EXCEPT !.key = Some(key)]
        ciphertext == looseArrayify(data.Crypto.ciphertext)
        computedMAC == Substring2(computeMAC(Slice(key, 16, 32), ciphertext))
    IN
    IF ~MacMatches(computedMAC, data.Crypto.mac)
    THEN DecFail(d, "invalid password")
    ELSE
      LET privateKey == DecryptCipher(data, Slice(key, 0, 16), ciphertext)
          mnemonicKey == Slice(key, 32, 64)
      IN
      IF ~Has(privateKey)
      THEN DecFail(d, "unsupported cipher")
      ELSE
        LET d1 == [d EXCEPT !.privateKey = privateKey]
            address == computeAddress(Get(privateKey))
            account == [address |-> Some(address),
                        privateKey |-> Some(hexlify(Get(privateKey))),
                        mnemonic |-> Absent, path |-> Absent]
        IN
        IF AddressCheckFails(data, address)
        THEN DecFail(d1, "address mismatch")
        ELSE
          IF Has(data.xethers) /\ Get(data.xethers).version = "0.1"
          THEN
            LET x == Get(data.xethers)
                mnemonicCiphertext == looseArrayify(x.mnemonicCiphertext)
                mnemonicIv == looseArrayify(x.mnemonicCounter)
                d2 == [d1 EXCEPT !.mnemonicKey = Some(mnemonicKey)]
            IN
            IF ~AesKeyOk(mnemonicKey)
            THEN DecFail(d2, "invalid key size")
            ELSE
              LET path == DecPath(x)
                  entropy == AesCtrDecrypt(mnemonicKey, mnemonicIv, mnemonicCiphertext)
                  mnemonic == entropyToMnemonic(entropy)
                  node == fromMnemonicDerivePath(mnemonic, path)
                  d3 == [d2 EXCEPT !.entropy = Some(entropy)]
              IN
              IF Some(node.privateKey) # account.privateKey
              THEN DecFail(d3, "mnemonic mismatch")
              ELSE [d3 EXCEPT !.pc = "done",
                              !.account = Some([account EXCEPT !.mnemonic = Some(node.mnemonic),
                                                               !.path = Some(node.path)])]
          ELSE [d1 EXCEPT !.pc = "done", !.account = Some(account)]

\* The sensitive buffers a finished getAccount has allocated
DecBuffers(d) ==
    (IF Has(d.passwordBytes) THEN {"dec.passwordBytes"} ELSE {})
      \cup (IF Has(d.key) THEN {"dec.key"} ELSE {})
      \cup (IF Has(d.privateKey) THEN {"dec.privateKey"} ELSE {})
      \cup (IF Has(d.entropy) THEN {"dec.entropy"} ELSE {})

\* lines 137-149: the checks of the scrypt parameters, in their order
ScryptParamError(N, r, p, dkLen) ==
    IF NotBits(N) \/ NotNat(r) \/ NotNat(p)
    THEN "unsupported key-derivation function parameters"
    ELSE IF NAndNMinusOneNonZero(Get(N))
         THEN "unsupported key-derivation function parameter value for N"
         ELSE IF dkLen # Some(32)
              THEN "unsupported key-derivation derived-key length"
              ELSE "ok"

\* lines 160-168
PrfFunc(prf) ==
    IF prf = Some("hmac-sha256") THEN Some("sha256")
    ELSE IF prf = Some("hmac-sha512") THEN Some("sha512")
    ELSE Absent

\* lines 49-52 and 130-183: up to the call of scrypt, or to the end on the other branches
DecryptBegin(password) ==
    /\ dec.pc = "idle"
    /\ Has(doc)
    /\ LET data == Get(doc)
           passwordBytes == getPassword(password)
           d == [DecIdle EXCEPT !.data = doc, !.password = Some(password),
                                !.passwordBytes = Some(passwordBytes)]
           kdf == data.Crypto.kdf
           kp == data.Crypto.kdfparams
       IN
       IF Has(kdf) /\ toLowerCase(Get(kdf)) = "scrypt"
       THEN
         LET N == parseInt(kp.n)
             r == parseInt(kp.r)
             p == parseInt(kp.p)
             e == ScryptParamError(N, r, p, parseInt(kp.dklen))
         IN
         IF e # "ok"
         THEN /\ dec' = DecFail(d, e)
              /\ live' = live \cup DecBuffers(d)
              /\ UNCHANGED <<scryptCalls, pbkdf2Calls>>
         ELSE /\ dec' = IF scryptAccepts(Get(N))
                        THEN [d EXCEPT !.pc = "kdf"]
                        ELSE DecFail(d, "scrypt: invalid N")
              /\ scryptCalls' = scryptCalls + 1
              /\ live' = live \cup DecBuffers(d)
              /\ UNCHANGED pbkdf2Calls
       ELSE IF Has(kdf) /\ toLowerCase(Get(kdf)) = "pbkdf2"
       THEN
         LET prfFunc == PrfFunc(kp.prf)
             dkLen == parseInt(kp.dklen)
         IN
         IF ~Has(prfFunc)
         THEN /\ dec' = DecFail(d, "unsupported prf")
              /\ live' = live \cup DecBuffers(d)
              /\ UNCHANGED <<scryptCalls, pbkdf2Calls>>
         ELSE IF dkLen # Some(32)
         THEN /\ dec' = DecFail(d, "unsupported key-derivation derived-key length")
              /\ live' = live \cup DecBuffers(d)
              /\ UNCHANGED <<scryptCalls, pbkdf2Calls>>
         ELSE
           LET key == pbkdf2(passwordBytes, looseArrayify(kp.salt), Get(parseInt(kp.c)),
                             Get(dkLen), Get(prfFunc))
               res == getAccount(d, data, key)
           IN /\ dec' = res
              /\ pbkdf2Calls' = pbkdf2Calls + 1
              /\ live' = live \cup DecBuffers(res)
              /\ UNCHANGED scryptCalls
       ELSE /\ dec' = DecFail(d, "unsupported key-derivation function")
            /\ live' = live \cup DecBuffers(d)
            /\ UNCHANGED <<scryptCalls, pbkdf2Calls>>
    /\ UNCHANGED <<enc, doc, origin, prev, randomDraws>>

\* lines 151-154: scrypt has delivered the key
DecryptResume ==
    /\ dec.pc = "kdf"
    /\ LET data == Get(dec.data)
           kp == data.Crypto.kdfparams
           key == scrypt(Get(dec.passwordBytes), looseArrayify(kp.salt), Get(parseInt(kp.n)),
                         Get(parseInt(kp.r)), Get(parseInt(kp.p)), 64)
           res == getAccount(dec, data, key)
       IN /\ dec' = res
          /\ live' = live \cup DecBuffers(res)
    /\ UNCHANGED <<enc, doc, origin, prev, scryptCalls, pbkdf2Calls, randomDraws>>

----------------------------------------------------------------------------
\* The inputs of encrypt.
Addresses == {[h |-> AddrHash(k), cs |-> c, px |-> TRUE] : k \in Keys, c \in BOOLEAN}
Mnemonics == {entropyToMnemonic(e) : e \in Blocks}
Accounts ==
    {[address |-> a, privateKey |-> hexlify(k), mnemonic |-> m, path |-> q] :
        a \in Addresses, k \in Keys,
        m \in {Absent} \cup {Some(w) : w \in Mnemonics},
        q \in {Absent} \cup {Some(w) : w \in Paths}}

NoOptions == [iv |-> Absent, salt |-> Absent, uuid |-> Absent, client |-> Absent, scrypt |-> Absent]
Bytes16(b) == [len |-> 16, bytes |-> b]
Bytes15(b) == [len |-> 15, bytes |-> b]
FixedOptions ==
    [NoOptions EXCEPT !.iv = Some(Bytes16(0)), !.salt = Some(0), !.uuid = Some(Bytes16(0))]
ScryptOptions(N, r, p) == Some([N |-> N, r |-> r, p |-> p])
OptionsSet ==
    {NoOptions,
     FixedOptions,
     [FixedOptions EXCEPT !.scrypt = ScryptOptions(Some(Bits1024), Some(8), Some(1))],
     [FixedOptions EXCEPT !.scrypt = ScryptOptions(Some({}), Some(0), Some(2))],
     [FixedOptions EXCEPT !.scrypt = ScryptOptions(Some(Bits1000), Absent, Absent)],
     [FixedOptions EXCEPT !.iv = Some(Bytes15(0))],
     [FixedOptions EXCEPT !.uuid = Some(Bytes15(0))],
     [FixedOptions EXCEPT !.iv = Some(Bytes16(1)), !.salt = Some(1), !.client = Some("geth")]}

\* The options that fix all three of iv, salt and uuid
FixesRandomness(options) == Has(options.iv) /\ Has(options.salt) /\ Has(options.uuid)

----------------------------------------------------------------------------
\* A stored document is changed in one field, to a different value.
Tamper(field, b) ==
    /\ origin = "encrypt"
    /\ dec.pc = "idle"
    /\ LET data == Get(doc)
           old == IF field = "ciphertext" THEN data.Crypto.ciphertext
                  ELSE IF field = "iv" THEN data.Crypto.cipherparams.iv
                  ELSE data.Crypto.kdfparams.salt
           new == [old EXCEPT !.bytes = b]
       IN /\ new # old
          /\ doc' = Some(IF field = "ciphertext" THEN [data EXCEPT !.Crypto.ciphertext = new]
                         ELSE IF field = "iv" THEN [data EXCEPT !.Crypto.cipherparams.iv = new]
                         ELSE [data EXCEPT !.Crypto.kdfparams.salt = new])
          /\ origin' = field
    /\ UNCHANGED <<enc, dec, prev, scryptCalls, pbkdf2Calls, randomDraws, live>>

TamperFields == {"ciphertext", "iv", "salt"}

----------------------------------------------------------------------------
\* Documents written by hand or by other producers: any private key behind
\* any kdf section, address field and x-ethers section, with the mac of the
\* password "foo".
KdfSections ==
    {[kdf |-> Some("scrypt"), n |-> n, r |-> r, p |-> p, dklen |-> l, c |-> Absent, prf |-> Absent] :
        n \in {Absent, Some({}), Some(Bits1000), Some(Bits1024), Some(BitsHigh)},
        r \in {Some(0), Some(8)}, p \in {Absent, Some(1)}, l \in {Some(32), Some(64)}}
    \cup
    {[kdf |-> Some("pbkdf2"), n |-> Absent, r |-> Absent, p |-> Absent, dklen |-> l,
      c |-> Some(2), prf |-> Some(f)] :
        l \in {Some(32), Some(64)}, f \in {"hmac-sha256", "hmac-sha512", "hmac-sha1"}}
    \cup
    {[kdf |-> k, n |-> Some(Bits1024), r |-> Some(8), p |-> Some(1), dklen |-> Some(32),
      c |-> Some(2), prf |-> Some("hmac-sha256")] :
        k \in {Absent, Some("Scrypt"), Some("PBKDF2"), Some("bcrypt")}}

\* The key the producer of a section derives: 32 bytes from pbkdf2, as dklen says
ProducerKey(ks, pw, salt) ==
    IF Has(ks.kdf) /\ toLowerCase(Get(ks.kdf)) = "pbkdf2" /\ Has(PrfFunc(ks.prf))
    THEN pbkdf2(pw, salt, Get(ks.c), 32, Get(PrfFunc(ks.prf)))
    ELSE scrypt(pw, salt, IF Has(ks.n) THEN Get(ks.n) ELSE {},
                IF Has(ks.r) THEN Get(ks.r) ELSE 0, IF Has(ks.p) THEN Get(ks.p) ELSE 0, 64)

\* The key of the mnemonic: bytes 32..64 of 64 derived bytes
ProducerMnemonicKey(ks, pw, salt) ==
    Slice([ProducerKey(ks, pw, salt) EXCEPT !.len = 64], 32, 64)

XEthersSections ==
    {Absent}
    \cup {Some([version |-> v, entropy |-> e, path |-> q]) :
            v \in {"0.1"}, e \in Blocks, q \in {Absent} \cup {Some(w) : w \in Paths}}
    \cup {Some([version |-> "0.2", entropy |-> 0, path |-> Absent])}

DocAddresses ==
    {Absent} \cup {Some([h |-> AddrHash(k), cs |-> f, px |-> f]) : k \in Keys, f \in BOOLEAN}

CraftedDocument(pk, ks, cipher, address, xe) ==
    LET pw == getPassword("foo")
        key == ProducerKey(ks, pw, 0)
        ciphertext == AesCtrEncrypt(Slice(key, 0, 16), 0, pk)
    IN [address |-> address,
        id |-> uuidV4(0),
        version |-> 3,
        Crypto |->
          [cipher |-> Some(cipher),
           cipherparams |-> [iv |-> Substring2(hexlify(0))],
           ciphertext |-> Substring2(hexlify(ciphertext)),
           kdf |-> ks.kdf,
           kdfparams |-> [salt |-> Substring2(hexlify(0)),
                          n |-> ks.n, dklen |-> ks.dklen, p |-> ks.p, r |-> ks.r,
                          c |-> ks.c, prf |-> ks.prf],
           mac |-> Substring2(keccak256(Slice(key, 16, 32), ciphertext))],
        xethers |->
          IF Has(xe)
          THEN Some([client |-> "other",
                     gethFilename |-> [timestamp |-> 0,
                                       address |-> [h |-> AddrHash(pk), cs |-> FALSE, px |-> FALSE]],
                     mnemonicCounter |-> Substring2(hexlify(0)),
                     mnemonicCiphertext |->
                        Substring2(hexlify(AesCtrEncrypt(ProducerMnemonicKey(ks, pw, 0), 0,
                                                         Get(xe).entropy))),
                     path |-> Get(xe).path,
                     version |-> Get(xe).version])
          ELSE Absent]

Craft(pk, ks, cipher, address, xe) ==
    /\ origin = "none"
    /\ doc' = Some(CraftedDocument(pk, ks, cipher, address, xe))
    /\ origin' = "crafted"
    /\ UNCHANGED <<enc, dec, prev, scryptCalls, pbkdf2Calls, randomDraws, live>>

----------------------------------------------------------------------------
\* A second call of encrypt, after a first one has returned its document.
Again ==
    /\ enc.pc = "done"
    /\ ~Has(prev)
    /\ prev' = Some([account |-> Get(enc.account), password |-> Get(enc.password),
                     options |-> Get(enc.options), out |-> Get(enc.out)])
    /\ enc' = EncIdle
    /\ UNCHANGED <<dec, doc, origin, scryptCalls, pbkdf2Calls, randomDraws, live>>

----------------------------------------------------------------------------
Init ==
    /\ enc = EncIdle
    /\ dec = DecIdle
    /\ doc = Absent
    /\ origin = "none"
    /\ prev = Absent
    /\ scryptCalls = 0
    /\ pbkdf2Calls = 0
    /\ randomDraws = 0
    /\ live = {}

Encrypting ==
    \/ /\ enc.pc = "idle"
       /\ \E account \in Accounts, password \in Passwords, options \in OptionsSet,
             rSalt \in RandVals, rIv \in RandVals, rUuid \in RandVals :
               EncryptBegin(account, password, options, rSalt, rIv, rUuid)
    \/ \E mnemonicIv \in RandVals, now \in Times : EncryptResume(mnemonicIv, now)

Decrypting ==
    \/ \E password \in Passwords : DecryptBegin(password)
    \/ DecryptResume

\* encrypt, then the stored document possibly changed, then decrypt
Next ==
    \/ Encrypting
    \/ \E field \in TamperFields, b \in Blocks : Tamper(field, b)
    \/ Decrypting

Spec == Init /\ [][Next]_vars

\* decrypt of documents of any producer
NextCrafted ==
    \/ /\ origin = "none"
       /\ \E pk \in Keys, ks \in KdfSections, cipher \in {"aes-128-ctr", "aes-128-cbc"},
             address \in DocAddresses, xe \in XEthersSections :
               Craft(pk, ks, cipher, address, xe)
    \/ Decrypting

SpecCrafted == Init /\ [][NextCrafted]_vars

\* two calls of encrypt on the same account, password and options, the
\* options fixing iv, salt and uuid; the random bytes and the clock are free
NextTwoRuns ==
    \/ /\ enc.pc = "idle"
       /\ ~Has(prev)
       /\ \E account \in Accounts, password \in Passwords,
             options \in {o \in OptionsSet : FixesRandomness(o)},
             rSalt \in RandVals, rIv \in RandVals, rUuid \in RandVals :
               EncryptBegin(account, password, options, rSalt, rIv, rUuid)
    \/ \E mnemonicIv \in RandVals, now \in Times : EncryptResume(mnemonicIv, now)
    \/ Again
    \/ /\ enc.pc = "idle"
       /\ Has(prev)
       /\ \E rSalt \in RandVals, rIv \in RandVals, rUuid \in RandVals :
             EncryptBegin(Get(prev).account, Get(prev).password, Get(prev).options,
                          rSalt, rIv, rUuid)

SpecTwoRuns == Init /\ [][NextTwoRuns]_vars

----------------------------------------------------------------------------
\* Properties.
EncFinished == enc.pc \in {"rejected", "thrown", "failed", "done"}
DecFinished == dec.pc \in {"failed", "done"}

PathOrDefault(account) == IF Has(account.path) THEN Get(account.path) ELSE defaultPath

AddressDefect(account) == account.address.h # AddrHash(account.privateKey.bytes)
MnemonicDefect(account) ==
    /\ Has(account.mnemonic)
    /\ derivePrivateKey(mnemonicToEntropy(Get(account.mnemonic)), PathOrDefault(account))
         # account.privateKey.bytes
PathDefect(account) == ~Has(account.mnemonic) /\ Has(account.path)

WellFormedAccount(account) ==
    ~AddressDefect(account) /\ ~MnemonicDefect(account) /\ ~PathDefect(account)

\* iv and uuid of 16 bytes when given, a work factor scrypt accepts
WellFormedOptions(options) ==
    /\ Has(options.iv) => Get(options.iv).len = 16
    /\ Has(options.uuid) => Get(options.uuid).len = 16
    /\ IsPowerOfTwo(ScryptN(options))

\* What decrypt must return for an account given to encrypt
SameAccount(account, returned) ==
    /\ returned.address = Some(account.address)
    /\ returned.privateKey = Some(account.privateKey)
    /\ returned.mnemonic = account.mnemonic
    /\ returned.path = IF Has(account.mnemonic) THEN Some(PathOrDefault(account)) ELSE Absent

\* decrypt has worked, with the password of encrypt, on the document encrypt returned
DecryptedOwnDocument ==
    /\ DecFinished
    /\ Has(enc.out)
    /\ dec.data = enc.out

RoundTripHolds ==
    /\ enc.pc = "done"
    /\ (DecryptedOwnDocument /\ dec.password = enc.password)
          => /\ dec.pc = "done"
             /\ SameAccount(Get(enc.account), Get(dec.account))

\* C1 as stated: for every well-formed account, every password and every
\* options value, encrypt returns a document and decrypt of it under the same
\* password returns the same address, privateKey, mnemonic and path.
RoundTripAnyOptions ==
    (EncFinished /\ WellFormedAccount(Get(enc.account))) => RoundTripHolds

\* C1 amended: the same, for an address given in its EIP-55 casing and for
\* options whose iv and uuid have 16 bytes and whose N is a power of two.
RoundTrip ==
    (/\ EncFinished
     /\ WellFormedAccount(Get(enc.account))
     /\ Get(enc.account).address.cs
     /\ WellFormedOptions(Get(enc.options)))
       => RoundTripHolds

RoundTripWitness ==
    /\ DecryptedOwnDocument
    /\ dec.password = enc.password
    /\ dec.pc = "done"
    /\ Has(Get(dec.account).mnemonic)
    /\ Get(dec.account).path = Some(otherPath)
    /\ ~Has(Get(enc.options).iv)

\* C2: decrypt of a document of encrypt under any other password fails with
\* "invalid password", the error of the MAC comparison, and with no other.
WrongPassword ==
    (DecryptedOwnDocument /\ dec.password # enc.password)
       => /\ dec.pc = "failed"
          /\ dec.err = "invalid password"
          /\ ~Has(dec.account)
          /\ ~Has(dec.privateKey)

WrongPasswordWitness ==
    /\ DecryptedOwnDocument
    /\ dec.password # enc.password
    /\ dec.err = "invalid password"
    /\ Has(Get(enc.account).mnemonic)

\* decrypt has worked, with the password of encrypt, on a document of encrypt
\* of which the named field was changed
DecryptedTampered(field) ==
    /\ DecFinished
    /\ origin = field
    /\ dec.data = doc
    /\ dec.password = enc.password

\* C3 as stated: a changed ciphertext, a changed iv and a changed salt each
\* make decrypt under the right password fail with "invalid password".
MacDomainAllThree ==
    \A field \in TamperFields :
        DecryptedTampered(field) => (dec.pc = "failed" /\ dec.err = "invalid password")

\* C3 amended: a changed ciphertext and a changed salt fail with "invalid
\* password"; a changed iv passes the MAC, which does not cover it, and
\* decrypt fails at the address check with "address mismatch".
MacDomain ==
    /\ \A field \in {"ciphertext", "salt"} :
          DecryptedTampered(field) => (dec.pc = "failed" /\ dec.err = "invalid password")
    /\ DecryptedTampered("iv")
          => (dec.pc = "failed" /\ dec.err = "address mismatch" /\ ~Has(dec.account))

MacDomainWitness ==
    /\ DecryptedTampered("iv")
    /\ dec.err = "address mismatch"

\* The document without the fields of the mnemonic's encryption and the file name
WithoutMnemonicCipher(d) ==
    IF Has(d.xethers)
    THEN [d EXCEPT !.xethers = Some([Get(d.xethers) EXCEPT
                                        !.mnemonicCounter = Substring2(hexlify(0)),
                                        !.mnemonicCiphertext = Substring2(hexlify(0)),
                                        !.gethFilename = [timestamp |-> 0,
                                                          address |-> Get(d.address)]])]
    ELSE d

SecondRunDone == Has(prev) /\ enc.pc = "done"

\* C4 as stated: with iv, salt and uuid fixed by the options, two runs of
\* encrypt on the same inputs return the same document, whatever the account.
DeterminismAnyAccount ==
    SecondRunDone => Get(enc.out) = Get(prev).out

\* C4 amended: they return the same document when the account has no
\* mnemonic; with a mnemonic the two documents agree in every field but
\* x-ethers mnemonicCounter, mnemonicCiphertext and gethFilename.
Determinism ==
    SecondRunDone =>
        /\ ~Has(Get(enc.account).mnemonic) => Get(enc.out) = Get(prev).out
        /\ WithoutMnemonicCipher(Get(enc.out)) = WithoutMnemonicCipher(Get(prev).out)

DeterminismWitness ==
    /\ SecondRunDone
    /\ ~Has(Get(enc.account).mnemonic)
    /\ randomDraws = 0
    /\ Get(enc.out) = Get(prev).out

\* C5: a returned account has the address of its private key; and a document
\* whose address field, 0x prepended when missing and put in EIP-55 casing,
\* is not the address of the decrypted private key fails with "address mismatch".
AddressCoherence ==
    /\ dec.pc = "done"
          => Get(dec.account).address
                = Some(computeAddress(arrayify(Get(Get(dec.account).privateKey))))
    /\ (/\ DecFinished
        /\ Has(dec.privateKey)
        /\ Has(Get(dec.data).address)
        /\ getAddress(AddrWith0x(Get(Get(dec.data).address)))
              # computeAddress(Get(dec.privateKey)))
          => (dec.pc = "failed" /\ dec.err = "address mismatch" /\ ~Has(dec.account))

AddressCoherenceWitness ==
    /\ dec.err = "address mismatch"
    /\ Has(dec.privateKey)
    /\ Get(Get(dec.data).address).px

\* C6: an account with a wrong address, a mnemonic that does not derive to
\* the private key, or a path without mnemonic is refused with the error of
\* a defect it has, before scrypt is called, before any random byte is drawn
\* and without any document.
PreValidationFirst ==
    (enc.pc # "idle" /\ ~WellFormedAccount(Get(enc.account)))
       => /\ enc.pc = "rejected"
          /\ enc.err \in {"address/privateKey mismatch", "mnemonic mismatch",
                          "cannot specify path without mnemonic"}
          /\ enc.err = "address/privateKey mismatch" => AddressDefect(Get(enc.account))
          /\ enc.err = "mnemonic mismatch" => MnemonicDefect(Get(enc.account))
          /\ enc.err = "cannot specify path without mnemonic" => PathDefect(Get(enc.account))
          /\ scryptCalls = 0
          /\ randomDraws = 0
          /\ ~Has(enc.out)
          /\ ~Has(doc)

PreValidationFirstWitness ==
    /\ enc.pc = "rejected"
    /\ enc.err = "cannot specify path without mnemonic"
    /\ Get(enc.options) = NoOptions

\* C7: whenever decrypt reaches the MAC step the derived key has 64 bytes,
\* and the key a mnemonic is decrypted under has the 32 bytes [32..64).
KdfYields64 ==
    /\ Has(dec.key) => Get(dec.key).len = 64
    /\ Has(dec.mnemonicKey) => SliceLen(Get(dec.mnemonicKey)) = 32

\* C8: on the scrypt branch, n, r or p missing or zero gives the parameters
\* error; otherwise n not a power of two gives the N error; otherwise dklen
\* not 32 gives the length error; scrypt is not called in any of them; a kdf
\* missing or neither scrypt nor pbkdf2 gives the function error.
ScryptValidation ==
    (dec.pc # "idle") =>
        LET kdf == Get(dec.data).Crypto.kdf
            kp == Get(dec.data).Crypto.kdfparams
        IN
        /\ (Has(kdf) /\ toLowerCase(Get(kdf)) = "scrypt") =>
              IF NotBits(kp.n) \/ NotNat(kp.r) \/ NotNat(kp.p)
              THEN /\ dec.err = "unsupported key-derivation function parameters"
                   /\ scryptCalls = 0
              ELSE IF ~IsPowerOfTwo(Get(kp.n))
              THEN /\ dec.err = "unsupported key-derivation function parameter value for N"
                   /\ scryptCalls = 0
              ELSE IF kp.dklen # Some(32)
              THEN /\ dec.err = "unsupported key-derivation derived-key length"
                   /\ scryptCalls = 0
              ELSE TRUE
        /\ (~Has(kdf) \/ toLowerCase(Get(kdf)) \notin {"scrypt", "pbkdf2"})
              => (dec.pc = "failed" /\ dec.err = "unsupported key-derivation function")

\* C9: a returned account has a mnemonic and a path exactly when the
\* document has x-ethers version 0.1; its path is x-ethers/path, or the
\* default path; its mnemonic derives along its path to its private key; and
\* decrypted entropy that derives to another key fails with "mnemonic mismatch".
MnemonicCoherence ==
    LET x == Get(dec.data).xethers
        tagged == Has(x) /\ Get(x).version = "0.1"
    IN
    /\ dec.pc = "done" =>
          LET a == Get(dec.account) IN
          /\ Has(a.mnemonic) <=> tagged
          /\ Has(a.path) <=> tagged
          /\ tagged =>
                /\ Get(a.path) = (IF Has(Get(x).path) THEN Get(Get(x).path) ELSE defaultPath)
                /\ hexlify(derivePrivateKey(mnemonicToEntropy(Get(a.mnemonic)), Get(a.path)))
                      = Get(a.privateKey)
    /\ (/\ DecFinished
        /\ Has(dec.entropy)
        /\ derivePrivateKey(Get(dec.entropy),
                            IF Has(Get(x).path) THEN Get(Get(x).path) ELSE defaultPath)
              # Get(dec.privateKey))
          => (dec.pc = "failed" /\ dec.err = "mnemonic mismatch" /\ ~Has(dec.account))

MnemonicCoherenceWitness ==
    /\ dec.pc = "done"
    /\ Has(Get(dec.account).mnemonic)
    /\ Get(dec.account).path = Some(otherPath)

\* C10: when a call of encrypt or of decrypt has ended, none of its
\* sensitive buffers still holds its secret bytes.
Zeroization ==
    /\ EncFinished =>
          live \cap {"enc.passwordBytes", "enc.privateKey", "enc.entropy", "enc.key"} = {}
    /\ DecFinished =>
          live \cap {"dec.passwordBytes", "dec.privateKey", "dec.entropy", "dec.key"} = {}
====
